---------------------------- MODULE Spec2Model ----------------------------
(***************************************************************************)
(* One-dimensional nozzle flow of aerokit: the regime thresholds, the      *)
(* confined exit-Mach solver Ms_from_AsAc_NPR and the field solver of the  *)
(* class nozzle (src/aerokit/instance/nozzle.py).                          *)
(*                                                                         *)
(* Reals are fixed-point integers: the real x is the integer x * Scale,    *)
(* every product and quotient rounded to the nearest.  The relations of    *)
(* the modules Isentropic, MassFlow, ShockWave and defaultgas are not part *)
(* of the sources at hand; they are the textbook perfect-gas relations the *)
(* specification names, inverses computed by bisection on the Mach grid.   *)
(***************************************************************************)
EXTENDS Integers, Sequences, FiniteSets, TLC

\* ------------------------------------------------------------ fixed point

\* The integer that stands for the real 1: four decimal digits are kept, the
\* most for which the square of a fraction still fits a 32-bit integer.
Scale == 10 ^ 4

\* Largest Mach number of the search grid of the inverse relations (real 3).
MachTop == 3 * Scale

Abs(x) == IF x < 0 THEN -x ELSE x

\* a * b, rounded to the nearest, without forming the full product.
Mul(a, b) ==
  LET a1 == a \div Scale
      a0 == a % Scale
      b1 == b \div Scale
      b0 == b % Scale
  IN  a1 * b1 * Scale + a1 * b0 + a0 * b1 + (a0 * b0 + Scale \div 2) \div Scale

\* a / b, rounded to the nearest.
Div(a, b) == (a \div b) * Scale + ((a % b) * Scale + b \div 2) \div b

RECURSIVE ISqrtN(_, _)
\* Largest integer whose square is at most n, by Newton's iteration from
\* an r at or above it.
ISqrtN(n, r) ==
  LET r2 == (r + n \div r) \div 2
  IN  IF r2 >= r THEN r ELSE ISqrtN(n, r2)

\* Square root of the real x, rounded to the nearest.
Sqrt(x) ==
  LET n == x * Scale
      r == ISqrtN(n, (x + Scale) \div 2 + 1)
  IN  IF n - r * r > r THEN r + 1 ELSE r

RECURSIVE IPow(_, _)
\* x to the natural power k.
IPow(x, k) == IF k = 0 THEN Scale ELSE Mul(x, IPow(x, k - 1))

\* x to the power k2 / 2.
PowHalf(x, k2) ==
  IF k2 % 2 = 0 THEN IPow(x, k2 \div 2)
  ELSE Mul(IPow(x, k2 \div 2), Sqrt(x))

\* ------------------------------------------------- perfect-gas relations
\* Every relation takes the specific-heat ratio g (a fixed-point real).  A
\* call of the source that passes no gamma is a call with the current
\* default gas, the variable defg_gamma below.

\* Is.PtPs_Mach: total over static pressure at Mach M.
PtPs_Mach(M, g) ==
  PowHalf(Scale + Mul((g - Scale) \div 2, Mul(M, M)), (2 * g) \div (g - Scale))

RECURSIVE Mach_PtPsB(_, _, _, _)
Mach_PtPsB(r, g, lo, hi) ==
  IF lo >= hi THEN lo
  ELSE LET mid == (lo + hi + 1) \div 2
       IN  IF PtPs_Mach(mid, g) <= r THEN Mach_PtPsB(r, g, mid, hi)
           ELSE Mach_PtPsB(r, g, lo, mid - 1)

\* Is.Mach_PtPs: the Mach number whose total over static pressure is r.
Mach_PtPs(r, g) == Mach_PtPsB(r, g, 0, MachTop)

\* mf.Sigma_Mach: section over critical section at Mach M (M > 0).
Sigma_Mach(M, g) ==
  Div(PowHalf(Div(Scale + Mul((g - Scale) \div 2, Mul(M, M)), (g + Scale) \div 2),
              (g + Scale) \div (g - Scale)),
      M)

RECURSIVE MachSub_SigmaB(_, _, _, _)
MachSub_SigmaB(s, g, lo, hi) ==
  IF lo >= hi THEN hi
  ELSE LET mid == (lo + hi) \div 2
       IN  IF Sigma_Mach(mid, g) <= s THEN MachSub_SigmaB(s, g, lo, mid)
           ELSE MachSub_SigmaB(s, g, mid + 1, hi)

\* mf.MachSub_Sigma: the subsonic Mach number of section ratio s (s >= 1).
MachSub_Sigma(s, g) == IF s <= Scale THEN Scale ELSE MachSub_SigmaB(s, g, 1, Scale)

RECURSIVE MachSup_SigmaB(_, _, _, _)
MachSup_SigmaB(s, g, lo, hi) ==
  IF lo >= hi THEN lo
  ELSE LET mid == (lo + hi + 1) \div 2
       IN  IF Sigma_Mach(mid, g) <= s THEN MachSup_SigmaB(s, g, mid, hi)
           ELSE MachSup_SigmaB(s, g, lo, mid - 1)

\* mf.MachSup_Sigma: the supersonic Mach number of section ratio s (s >= 1).
MachSup_Sigma(s, g) == IF s <= Scale THEN Scale ELSE MachSup_SigmaB(s, g, Scale, MachTop)

\* sw.downstream_Mn: Mach number behind a normal shock of upstream Mach M.
downstream_Mn(M, g) ==
  Sqrt(Div(Scale + Mul((g - Scale) \div 2, Mul(M, M)),
           Mul(g, Mul(M, M)) - (g - Scale) \div 2))

\* sw.Pi_ratio: total pressure behind over total pressure ahead of a normal
\* shock of upstream Mach M.
Pi_ratio(M, g) ==
  LET M2 == Mul(M, M)
      a  == PowHalf(Div(Mul((g + Scale) \div 2, M2),
                        Scale + Mul((g - Scale) \div 2, M2)),
                    (2 * g) \div (g - Scale))
      b  == PowHalf(Div(g + Scale, 2 * Mul(g, M2) - (g - Scale)),
                    (2 * Scale) \div (g - Scale))
  IN  Mul(a, b)

RECURSIVE Mn_Pi_ratioB(_, _, _, _)
Mn_Pi_ratioB(p, g, lo, hi) ==
  IF lo >= hi THEN hi
  ELSE LET mid == (lo + hi) \div 2
       IN  IF Pi_ratio(mid, g) <= p THEN Mn_Pi_ratioB(p, g, lo, mid)
           ELSE Mn_Pi_ratioB(p, g, mid + 1, hi)

\* sw.Mn_Pi_ratio: upstream Mach of the normal shock of total-pressure ratio p.
Mn_Pi_ratio(p, g) == IF p >= Scale THEN Scale ELSE Mn_Pi_ratioB(p, g, Scale, MachTop)

\* ------------------------------------------------- thresholds, exit Mach

\* _NPR_Ms_list(AsAc): the record (NPR0, NPRsw, NPR1, Msub, Msh, Msup).
NPR_Ms_list(AsAc, g) ==
  LET Msub  == MachSub_Sigma(AsAc, g)
      NPR0  == PtPs_Mach(Msub, g)
      Msup  == MachSup_Sigma(AsAc, g)
      Msh   == downstream_Mn(Msup, g)
      NPRsw == Div(PtPs_Mach(Msh, g), Pi_ratio(Msup, g))
      NPR1  == PtPs_Mach(Msup, g)
  IN  [NPR0 |-> NPR0, NPRsw |-> NPRsw, NPR1 |-> NPR1,
       Msub |-> Msub, Msh |-> Msh, Msup |-> Msup]

\* Variant of the closed form: the factor 2 of 2.*gmu*K*K left out.
MsShockNoFactor(AsAc, NPR, g) ==
  LET gmu == g - Scale
      K   == Div(Div(NPR, AsAc), PowHalf((g + Scale) \div 2, (g + Scale) \div gmu))
  IN  Sqrt(Div(Sqrt(Scale + Mul(gmu, Mul(K, K))) - Scale, gmu))

\* Variant of the closed form: K taken as AsAc/NPR instead of NPR/AsAc.
MsShockInverted(AsAc, NPR, g) ==
  LET gmu == g - Scale
      K   == Div(Div(AsAc, NPR), PowHalf((g + Scale) \div 2, (g + Scale) \div gmu))
  IN  Sqrt(Div(Sqrt(Scale + Mul(2 * gmu, Mul(K, K))) - Scale, gmu))

\* The closed form of the last branch of Ms_from_AsAc_NPR.
MsShockInNozzle(AsAc, NPR, g) ==
  LET gmu == g - Scale
      K   == Div(Div(NPR, AsAc), PowHalf((g + Scale) \div 2, (g + Scale) \div gmu))
  IN  Sqrt(Div(Sqrt(Scale + Mul(2 * gmu, Mul(K, K))) - Scale, gmu))

\* Variant of the branch: NPR <= NPR0 taken as subsonic.
MsBranchClosed(L, NPR) ==
  IF NPR <= L.NPR0 THEN "subsonic"
  ELSE IF NPR > L.NPRsw THEN "supersonic"
  ELSE "shock"

\* The branch Ms_from_AsAc_NPR takes, L being the thresholds of AsAc.
MsBranchOf(L, NPR) ==
  IF NPR < L.NPR0 THEN "subsonic"
  ELSE IF NPR > L.NPRsw THEN "supersonic"
  ELSE "shock"

MsBranch(AsAc, NPR, g) == MsBranchOf(NPR_Ms_list(AsAc, g), NPR)

\* The value Ms_from_AsAc_NPR returns, L being the thresholds of AsAc.
MsOf(L, AsAc, NPR, g) ==
  IF MsBranchOf(L, NPR) = "subsonic" THEN Mach_PtPs(NPR, g)
  ELSE IF MsBranchOf(L, NPR) = "supersonic" THEN L.Msup
  ELSE MsShockInNozzle(AsAc, NPR, g)

\* Ms_from_AsAc_NPR(AsAc, NPR) under the default gas g.
Ms_from_AsAc_NPR(AsAc, NPR, g) == MsOf(NPR_Ms_list(AsAc, g), AsAc, NPR, g)

\* --------------------------------------------------------- the nozzle

\* The specific-heat ratios of the model: 1.4 (the default of __init__) and 2.
Gammas == {(14 * Scale) \div 10, 2 * Scale}

\* Section laws (areas along the axis), each with one interior minimum.
Sections ==
  { << (15 * Scale) \div 10, Scale, (14 * Scale) \div 10, (16 * Scale) \div 10, 2 * Scale >>,
    << (24 * Scale) \div 10, (12 * Scale) \div 10, (15 * Scale) \div 10, (18 * Scale) \div 10 >> }

\* Values of the argument AsoAc: 0 stands for None (any falsy value), the
\* other forces the exit ratio 2.
AsoAcArgs == {0, 2 * Scale}

\* Values of the argument NPR of __init__: 0 stands for None (any falsy value).
NPRArgs == {0, (15 * Scale) \div 10}

\* An attribute set_NPR has not assigned yet.
Unset == << >>

\* An array as a tuple of its values.
Arr(f) == f \o << >>

\* np.ones_like of an array of n values.
Ones(n) == Arr([i \in 1..n |-> Scale])

\* np.min(section)
MinOf(s) == CHOOSE v \in {s[i] : i \in 1..Len(s)} : \A i \in 1..Len(s) : v <= s[i]

\* np.abs(a).argmin(): the first index of the least absolute value.
AbsArgMin(a) ==
  CHOOSE i \in 1..Len(a) :
    /\ \A j \in 1..Len(a) : Abs(a[i]) <= Abs(a[j])
    /\ \A j \in 1..(i - 1) : Abs(a[j]) > Abs(a[i])

\* nozzle.__init__ up to the thresholds, under the default gas amb: the
\* attributes of the object (stations are numbered from 1).
NozzleInit(section, AsoAcArg, gamma, amb) ==
  LET n     == Len(section)
      AsoAc == IF AsoAcArg # 0 THEN AsoAcArg ELSE Div(section[n], MinOf(section))
      AxoAc == Arr([i \in 1..n |-> Div(Mul(section[i], AsoAc), section[n])])
      L     == NPR_Ms_list(AsoAc, amb)
  IN  [gamma |-> gamma, AsoAc |-> AsoAc, AxoAc |-> AxoAc,
       ithroat |-> AbsArgMin(AxoAc),
       NPR0 |-> L.NPR0, NPRsw |-> L.NPRsw, NPR1 |-> L.NPR1,
       Msub |-> L.Msub, Msh |-> L.Msh, Msup |-> L.Msup]

\* The branch set_NPR takes.
FieldBranch(self, NPR) ==
  IF NPR < self.NPR0 THEN "subsonic"
  ELSE IF NPR < self.NPRsw THEN "shock"
  ELSE "supersonic"

\* Variant of the start: the array _Pt allocated once and kept afterwards.
PtStartKept(self, old) == IF old.Pt = Unset THEN Ones(Len(self.AxoAc)) ELSE old.Pt

\* The total pressures set_NPR starts from: self._Pt = np.ones_like(self.AxoAc).
PtStart(self, old) == Ones(Len(self.AxoAc))

\* self._Ps = self._Pt / Is.PtPs_Mach(self._M, gamma=g), closing a solve that
\* left the total pressures Pt and the Mach numbers M.
WithPs(Pt, M, g, inner, ish) ==
  [Pt |-> Pt, M |-> M,
   Ps |-> Arr([i \in 1..Len(M) |-> Div(Pt[i], PtPs_Mach(M[i], g))]),
   inner |-> inner, ish |-> ish]

\* Lines 183-185: the unchoked field, Ms being the exit Mach number.
SubsonicField(self, Pt0, Ms, amb) ==
  WithPs(Pt0,
         Arr([i \in 1..Len(self.AxoAc) |->
                MachSub_Sigma(Mul(Div(self.AxoAc[i], self.AsoAc), Sigma_Mach(Ms, amb)),
                              self.gamma)]),
         self.gamma, "none", 0)

\* Lines 187-189: subsonic up to the throat, supersonic after it.
ChokedMach(self) ==
  Arr([i \in 1..Len(self.AxoAc) |->
         IF i <= self.ithroat
         THEN MachSub_Sigma(self.AxoAc[i], self.gamma)
         ELSE MachSup_Sigma(self.AxoAc[i], self.gamma)])

\* Line 196: the station the shock is put at, np.abs(self._M - Msh).argmin().
ShockIndex(M, Msh) == AbsArgMin(Arr([i \in 1..Len(M) |-> M[i] - Msh]))

\* Lines 197-199: the field from the station ish on, then the pressures.
ShockWrite(self, Pt0, M1, amb, sg, Ptloss, ish, inner) ==
  WithPs(Arr([i \in 1..Len(M1) |-> IF i >= ish THEN Ptloss ELSE Pt0[i]]),
         Arr([i \in 1..Len(M1) |->
                IF i >= ish
                THEN MachSub_Sigma(Div(Mul(self.AxoAc[i], sg), self.AsoAc), amb)
                ELSE M1[i]]),
         amb, inner, ish)

\* Lines 194-196: the shock of total-pressure ratio Ptloss and its station.
ShockAt(self, Pt0, M1, amb, Ms, Ptloss, inner) ==
  ShockWrite(self, Pt0, M1, amb, Sigma_Mach(Ms, amb), Ptloss,
             ShockIndex(M1, Mn_Pi_ratio(Ptloss, amb)), inner)

\* Line 193: Ptloss = Is.PtPs_Mach(Ms) / NPR, Ms being the exit Mach number.
ShockLoss(self, Pt0, M1, amb, Ms, NPR, inner) ==
  ShockAt(self, Pt0, M1, amb, Ms, Div(PtPs_Mach(Ms, amb), NPR), inner)

\* Line 192: the inner call Ms_from_AsAc_NPR(self.AsoAc, NPR), which computes
\* the thresholds L anew under the default gas.
ShockField(self, Pt0, M1, NPR, amb, L) ==
  ShockLoss(self, Pt0, M1, amb, MsOf(L, self.AsoAc, NPR, amb), NPR, MsBranchOf(L, NPR))

\* nozzle.set_NPR(NPR) under the default gas amb, on the object self whose
\* field attributes are old: the attributes _Pt, _M, _Ps it leaves, with the
\* branch the inner call of Ms_from_AsAc_NPR took and the shock station.
set_NPR(self, old, NPR, amb) ==
  IF FieldBranch(self, NPR) = "subsonic"
  THEN SubsonicField(self, PtStart(self, old), Mach_PtPs(NPR, self.gamma), amb)
  ELSE IF FieldBranch(self, NPR) = "shock"
  THEN ShockField(self, PtStart(self, old), ChokedMach(self), NPR, amb,
                  NPR_Ms_list(self.AsoAc, amb))
  ELSE WithPs(PtStart(self, old), ChokedMach(self), amb, "none", 0)

\* Lines 187-188 alone: _M all ones, then its part up to the throat written.
ThroatHalf(self) ==
  Arr([i \in 1..Len(self.AxoAc) |->
         IF i <= self.ithroat THEN MachSub_Sigma(self.AxoAc[i], self.gamma) ELSE Scale])

\* The lines of set_NPR an exception is followed from: at 182 the comparison
\* (or, with the same effect, an inner relation of lines 183-184), at 185,
\* 188, 189 and 199 the relation called there, at 192 the scalar solver or
\* a relation of lines 193-197.
RaisePoints == {"182", "185", "188", "189", "192", "199"}

\* Whether set_NPR(NPR) comes to the line at.
CanRaise(self, NPR, at) ==
  IF at = "182" THEN TRUE
  ELSE IF at = "185" THEN FieldBranch(self, NPR) = "subsonic"
  ELSE IF at = "192" THEN FieldBranch(self, NPR) = "shock"
  ELSE FieldBranch(self, NPR) # "subsonic"

\* The attributes set_NPR has assigned when it raises at the line at.
Assigned(at) == IF at = "182" THEN {"Pt"} ELSE {"Pt", "M"}

\* The attributes of the object after set_NPR(NPR) raised at the line at:
\* what the lines before it assigned, the rest as it was.  At line 199 the
\* shock, if any, is already written to _Pt and _M (lines 197-198).
set_NPR_raising(self, old, NPR, amb, at) ==
  IF at = "182" THEN [old EXCEPT !.Pt = PtStart(self, old)]
  ELSE IF at = "185"
  THEN [Pt |-> PtStart(self, old),
        M  |-> SubsonicField(self, PtStart(self, old), Mach_PtPs(NPR, self.gamma), amb).M,
        Ps |-> old.Ps]
  ELSE IF at = "188" THEN [Pt |-> PtStart(self, old), M |-> Ones(Len(self.AxoAc)), Ps |-> old.Ps]
  ELSE IF at = "189" THEN [Pt |-> PtStart(self, old), M |-> ThroatHalf(self), Ps |-> old.Ps]
  ELSE IF at = "192" THEN [Pt |-> PtStart(self, old), M |-> ChokedMach(self), Ps |-> old.Ps]
  ELSE [set_NPR(self, old, NPR, amb) EXCEPT !.Ps = old.Ps]

\* The accessors: reading an attribute set_NPR never assigned raises
\* AttributeError, otherwise the array is returned.
Mach(f) == [op |-> "Mach", raised |-> f.M = Unset, val |-> f.M]

Ps(f) == [op |-> "Ps", raised |-> f.Ps = Unset, val |-> f.Ps]

Ptot(f) == [op |-> "Ptot", raised |-> f.Pt = Unset, val |-> f.Pt]

\* ------------------------------------------------------------- inputs

\* Number of pressure ratios of the grid 1.1, 1.2, ...
NPRSteps == 5

NPRGrid == {Scale + (k * Scale) \div 10 : k \in 1..NPRSteps}

\* Pressure ratios tried on a nozzle (or an exit ratio) of thresholds NPR0
\* and NPRsw: the grid, the two thresholds and their neighbours.
NPRInputs(NPR0, NPRsw) == NPRGrid \cup {NPR0 - 1, NPR0, NPRsw, NPRsw + 1}

\* Pressure ratios tried on calls of set_NPR that raise: one of each branch.
RaiseInputs(NPR0, NPRsw) == {NPR0 - 1, NPRsw - 1, NPRsw}

\* Exit ratios tried on the scalar solver.
AsAcInputs == {(15 * Scale) \div 10, 2 * Scale}

\* ------------------------------------------------------------- state

VARIABLES
  defg_gamma,  \* defaultgas._gamma, the current default gas
  nz,          \* the attributes __init__ gives the nozzle object
  cfg,         \* the arguments the nozzle was constructed with
  fld,         \* the attributes _Pt, _M, _Ps of the object
  last,        \* the last call of set_NPR that returned
  inLast,      \* the attributes the most recent call of set_NPR assigned
  invoked,     \* whether set_NPR was ever called
  ret,         \* what the most recent method call gave its caller
  msPrev,      \* the call of Ms_from_AsAc_NPR before the most recent one
  msCur        \* the most recent call of Ms_from_AsAc_NPR

vars == <<defg_gamma, nz, cfg, fld, last, inLast, invoked, ret, msPrev, msCur>>

All == {"Pt", "M", "Ps"}

NoField == [Pt |-> Unset, M |-> Unset, Ps |-> Unset]

NoLast ==
  [NPR |-> 0, branch |-> "none", inner |-> "none", ish |-> 0, amb |-> 0, over |-> FALSE]

NoRet == [op |-> "none", raised |-> FALSE, val |-> Unset]

NoMs ==
  [AsAc |-> 0, NPR |-> 0, g |-> 0, Ms |-> 0, branch |-> "none",
   NPR0 |-> 0, NPRsw |-> 0, Msh |-> 0, Msup |-> 0]

\* Whether the total pressures Pt hold a loss.
HasLoss(Pt) == \E i \in 1..Len(Pt) : Pt[i] < Scale

\* The record of a call set_NPR(NPR) that returned r on an object whose field
\* attributes were old: the pressure ratio, the branch taken, the default gas
\* at the time, and whether the call overwrote a field with a shock loss.
LastOf(self, old, NPR, amb, r) ==
  [NPR |-> NPR, branch |-> FieldBranch(self, NPR), inner |-> r.inner,
   ish |-> r.ish, amb |-> amb, over |-> HasLoss(old.Pt)]

FieldOf(r) == [Pt |-> r.Pt, M |-> r.M, Ps |-> r.Ps]

\* nozzle(x, section, AsoAc, gamma, NPR): the object after construction.
\* save_default and restore_default leave the default gas as it was.
Construct(section, AsoAcArg, gamma, NPRArg, amb) ==
  LET self == NozzleInit(section, AsoAcArg, gamma, amb)
      r    == set_NPR(self, NoField, NPRArg, amb)
  IN  /\ defg_gamma = amb
      /\ nz = self
      /\ cfg = [section |-> section, AsoAcArg |-> AsoAcArg, amb |-> amb]
      /\ invoked = (NPRArg # 0)
      /\ fld = IF NPRArg # 0 THEN FieldOf(r) ELSE NoField
      /\ last = IF NPRArg # 0 THEN LastOf(self, NoField, NPRArg, amb, r) ELSE NoLast
      /\ inLast = IF NPRArg # 0 THEN All ELSE {}
      /\ ret = NoRet

Init ==
  /\ \E section \in Sections, AsoAcArg \in AsoAcArgs, gamma \in Gammas,
        NPRArg \in NPRArgs, amb \in Gammas :
       Construct(section, AsoAcArg, gamma, NPRArg, amb)
  /\ msPrev = NoMs
  /\ msCur = NoMs

\* set_NPR(NPR) with a scalar NPR.
SetNPR(NPR) ==
  LET r == set_NPR(nz, fld, NPR, defg_gamma)
  IN  /\ fld' = FieldOf(r)
      /\ last' = LastOf(nz, fld, NPR, defg_gamma, r)
      /\ inLast' = All
      /\ invoked' = TRUE
      /\ ret' = [op |-> "set_NPR", raised |-> FALSE, val |-> Unset]
      /\ UNCHANGED <<defg_gamma, nz, cfg, msPrev, msCur>>

\* set_NPR(NPR) raising at the line at: the comparison cannot decide (NPR an
\* array of several values, None), the arithmetic of the scalar solver
\* rejects NPR (a Decimal) or an inner relation raises.  The attributes the
\* lines before assigned stay assigned.
SetNPRRaises(NPR, at) ==
  /\ CanRaise(nz, NPR, at)
  /\ fld' = FieldOf(set_NPR_raising(nz, fld, NPR, defg_gamma, at))
  /\ inLast' = Assigned(at)
  /\ invoked' = TRUE
  /\ ret' = [op |-> "set_NPR", raised |-> TRUE, val |-> Unset]
  /\ UNCHANGED <<defg_gamma, nz, cfg, last, msPrev, msCur>>

CallMach ==
  /\ ret' = Mach(fld)
  /\ UNCHANGED <<defg_gamma, nz, cfg, fld, last, inLast, invoked, msPrev, msCur>>

CallPs ==
  /\ ret' = Ps(fld)
  /\ UNCHANGED <<defg_gamma, nz, cfg, fld, last, inLast, invoked, msPrev, msCur>>

CallPtot ==
  /\ ret' = Ptot(fld)
  /\ UNCHANGED <<defg_gamma, nz, cfg, fld, last, inLast, invoked, msPrev, msCur>>

\* defaultgas.set_gamma(g): another default gas.
SetGamma(g) ==
  /\ g # defg_gamma
  /\ defg_gamma' = g
  /\ UNCHANGED <<nz, cfg, fld, last, inLast, invoked, ret, msPrev, msCur>>

\* The record of a call Ms_from_AsAc_NPR(AsAc, NPR) under the default gas g:
\* the value returned, the branch taken and the thresholds L it computed.
MsCall(AsAc, NPR, g, L) ==
  [AsAc |-> AsAc, NPR |-> NPR, g |-> g,
   Ms |-> Ms_from_AsAc_NPR(AsAc, NPR, g), branch |-> MsBranch(AsAc, NPR, g),
   NPR0 |-> L.NPR0, NPRsw |-> L.NPRsw, Msh |-> L.Msh, Msup |-> L.Msup]

\* Ms_from_AsAc_NPR(AsAc, NPR) called on its own; the call before it is kept
\* when it was made with the same exit ratio under the same default gas.
CallMs(AsAc, NPR) ==
  /\ msCur' = MsCall(AsAc, NPR, defg_gamma, NPR_Ms_list(AsAc, defg_gamma))
  /\ msPrev' = IF msCur.AsAc = AsAc /\ msCur.g = defg_gamma THEN msCur ELSE NoMs
  /\ UNCHANGED <<defg_gamma, nz, cfg, fld, last, inLast, invoked, ret>>

\* The field solver: construction, then calls of set_NPR under whatever the
\* default gas is at the time.
Next ==
  \/ \E NPR \in NPRInputs(nz.NPR0, nz.NPRsw) : SetNPR(NPR)
  \/ \E g \in Gammas : SetGamma(g)

Spec == Init /\ [][Next]_vars

\* The object and its callers: calls of set_NPR that return or raise, and the
\* accessors, on nozzles of the default gas 1.4 and of derived exit ratio.
InitAccess ==
  /\ Init
  /\ cfg.AsoAcArg = 0
  /\ nz.gamma = (14 * Scale) \div 10
  /\ defg_gamma = (14 * Scale) \div 10

NextAccess ==
  \/ \E NPR \in NPRInputs(nz.NPR0, nz.NPRsw) : SetNPR(NPR)
  \/ \E NPR \in RaiseInputs(nz.NPR0, nz.NPRsw), at \in RaisePoints : SetNPRRaises(NPR, at)
  \/ CallMach
  \/ CallPs
  \/ CallPtot

SpecAccess == InitAccess /\ [][NextAccess]_vars

\* The scalar solver alone.
InitMs ==
  /\ Init
  /\ cfg.section = << (15 * Scale) \div 10, Scale, (14 * Scale) \div 10, (16 * Scale) \div 10, 2 * Scale >>
  /\ cfg.AsoAcArg = 0
  /\ nz.gamma = (14 * Scale) \div 10
  /\ ~invoked

NextMs ==
  \/ \E AsAc \in AsAcInputs :
       \E NPR \in NPRInputs(NPR_Ms_list(AsAc, defg_gamma).NPR0,
                            NPR_Ms_list(AsAc, defg_gamma).NPRsw) : CallMs(AsAc, NPR)
  \/ \E g \in Gammas : SetGamma(g)

SpecMs == InitMs /\ [][NextMs]_vars


\* ------------------------------------------------------------- claims

\* Tolerance on Mach numbers and area ratios: 0.005.
Tol == Scale \div 200

Accessors == {"Mach", "Ps", "Ptot"}

\* The last call of set_NPR returned and its field is the object's.
Solved == inLast = All

\* The nozzle's gas is the default gas, at construction and at the last call.
OneGas == nz.gamma = cfg.amb /\ last.amb = cfg.amb

\* The exit ratio AsoAc was derived from the profile, not given.
Derived == cfg.AsoAcArg = 0

\* Two arrays of the same length, equal to the tolerance at every station.
Near(a, b) == Len(a) = Len(b) /\ \A i \in 1..Len(a) : Abs(a[i] - b[i]) <= Tol

\* C1: in every regime the total pressure at the throat station is 1 after
\* set_NPR returned, the loss of a shock being applied after the throat only.
\* Stated for nozzles of the default gas and of derived exit ratio.
C1_ThroatKeepsTotalPressure ==
  (Solved /\ OneGas /\ Derived) => Abs(fld.Pt[nz.ithroat] - Scale) <= Tol

\* C2: at NPR equal to NPR0 the field solver and the scalar solver it calls
\* take the same branch, the one with a shock: neither takes the subsonic one.
C2_SameBranchAtNPR0 ==
  (Solved /\ last.NPR = nz.NPR0 /\ last.NPR = NPR_Ms_list(nz.AsoAc, last.amb).NPR0)
    => (last.branch = "shock" /\ last.inner = "shock")

C2_Witness ==
  /\ Solved
  /\ last.NPR = nz.NPR0
  /\ last.NPR = NPR_Ms_list(nz.AsoAc, last.amb).NPR0
  /\ last.branch = "shock"
  /\ last.inner = "shock"
  /\ last.ish >= 1

\* Two fields equal to the tolerance.
SameField(f, h) == Near(f.Pt, h.Pt) /\ Near(f.M, h.M) /\ Near(f.Ps, h.Ps)

\* C5: the field depends on the profile, the pressure ratio and the nozzle's
\* own gamma only: the same nozzle constructed under any default gas a1 and
\* solved under any default gas a2 holds the same arrays.
C5_FieldIgnoresDefaultGas ==
  Solved =>
    \A a1 \in Gammas, a2 \in Gammas :
      SameField(set_NPR(NozzleInit(cfg.section, cfg.AsoAcArg, nz.gamma, a1),
                        NoField, last.NPR, a2), fld)

\* C6: after a call of set_NPR returned, the three arrays are those a single
\* call with the same pressure ratio leaves on the same nozzle freshly
\* constructed: nothing of an earlier field survives.
C6_FieldIsFresh ==
  Solved => fld = FieldOf(set_NPR(nz, NoField, last.NPR, last.amb))

\* A shock-free field written over a field that held a shock loss.
C6_Witness ==
  /\ Solved
  /\ last.over
  /\ last.branch = "supersonic"
  /\ ~HasLoss(fld.Pt)

\* C9: AxoAc has the length of the profile, is least at the throat station,
\* is 1 there and is AsoAc at the last station, whether AsoAc was derived
\* from the profile or given.
C9_AxoAcNormalised ==
  /\ Len(nz.AxoAc) = Len(cfg.section)
  /\ \A j \in 1..Len(nz.AxoAc) : nz.AxoAc[nz.ithroat] <= nz.AxoAc[j]
  /\ Abs(nz.AxoAc[nz.ithroat] - Scale) <= Tol
  /\ Abs(nz.AxoAc[Len(nz.AxoAc)] - nz.AsoAc) <= Tol

\* C10: for every pressure ratio, the thresholds included, the Mach number
\* at the last station of the field is the one Ms_from_AsAc_NPR returns for
\* the nozzle's exit ratio.  Stated for nozzles of the default gas and of
\* derived exit ratio.
C10_ExitMachIsMs ==
  (Solved /\ OneGas /\ Derived) =>
    Abs(fld.M[Len(fld.M)] - Ms_from_AsAc_NPR(nz.AsoAc, last.NPR, last.amb)) <= Tol

\* C7: a field solve is all-or-nothing: whenever an accessor returns an
\* array, the three arrays of the object were all assigned by one and the
\* same call of set_NPR; a call that raised leaves nothing of its own.
C7_AllOrNothing ==
  (ret.op \in Accessors /\ ~ret.raised) => inLast = All

\* C8: on a nozzle set_NPR was never invoked on, Mach(), Ps() and Ptot() each
\* fail; an accessor returns an array only once a call of set_NPR returned.
C8_ArraysOnlyOnceSolved ==
  ret.op \in Accessors =>
    /\ ~invoked => ret.raised
    /\ ~ret.raised => last.branch # "none"

\* Two calls of the scalar solver in a row, with the same exit ratio under the
\* same default gas.
MsPair == msPrev.branch # "none"

\* The pair is NPR0 less one unit, then NPR0.
AcrossNPR0 == MsPair /\ msPrev.NPR = msCur.NPR0 - 1 /\ msCur.NPR = msCur.NPR0

\* The pair is NPRsw, then NPRsw plus one unit.
AcrossNPRsw == MsPair /\ msPrev.NPR = msCur.NPRsw /\ msCur.NPR = msCur.NPRsw + 1

\* C3 as stated: Ms_from_AsAc_NPR is continuous in NPR at NPR0 and at NPRsw.
C3_ContinuousAtBoth ==
  (AcrossNPR0 \/ AcrossNPRsw) => Abs(msCur.Ms - msPrev.Ms) <= Tol

\* C3, amended: Ms_from_AsAc_NPR is continuous in NPR at NPR0; at NPRsw it
\* steps from the subsonic Mach number behind the exit shock, Msh, to the
\* supersonic Msup.
C3_ContinuousAtNPR0 ==
  /\ AcrossNPR0 => Abs(msCur.Ms - msPrev.Ms) <= Tol
  /\ AcrossNPRsw =>
       /\ Abs(msPrev.Ms - msCur.Msh) <= Tol
       /\ msPrev.Ms < Scale
       /\ msCur.Ms = msCur.Msup
       /\ msCur.Ms > Scale

C3_Witness ==
  /\ AcrossNPR0
  /\ msPrev.branch = "subsonic"
  /\ msCur.branch = "shock"
  /\ Abs(msCur.Ms - msPrev.Ms) <= Tol

\* The pair is two pressure ratios of the branch with a shock in the nozzle,
\* the lesser first.
ShockPair ==
  /\ MsPair
  /\ msPrev.branch = "shock"
  /\ msCur.branch = "shock"
  /\ msPrev.NPR <= msCur.NPR

\* C4 as stated: through the branch with a shock in the nozzle the exit Mach
\* number is non-increasing as NPR increases.
C4_NonIncreasing == ShockPair => msPrev.Ms >= msCur.Ms

\* C4, amended: through the branch with a shock in the nozzle the exit Mach
\* number is non-decreasing as NPR increases, and greater at a greater NPR.
C4_NonDecreasing ==
  ShockPair =>
    /\ msPrev.Ms <= msCur.Ms
    /\ msPrev.NPR < msCur.NPR => msPrev.Ms < msCur.Ms

C4_Witness ==
  /\ ShockPair
  /\ msPrev.NPR < msCur.NPR
  /\ msPrev.Ms < msCur.Ms

=============================================================================
